---- MODULE Spec2Model ----
(***************************************************************************)
(* A model of inline-python's Context (src/src/context.rs): persistent     *)
(* Python global namespaces, the get / set / add_wrapped / run operations  *)
(* on them, the GIL discipline of Python::with_gil around every one of     *)
(* them, and the error-to-panic-message path (panic_string).               *)
(***************************************************************************)
EXTENDS Integers, Sequences, FiniteSets, TLC

\* ------------------------------------------------------------------ bounds
NThreads == 2
MaxCtx == 2
MaxOps == 4

Threads == 1..NThreads
\* Handle 0 is the dictionary of the '__main__' module; every Context created
\* gets a dictionary of its own at a fresh handle.
MainDict == 0

\* --------------------------------------------------- Python and host values
Names == {"__builtins__", "x", "foo", "n", "get_five"}

\* The range of the host type i32.
I32Max == 2147483647
I32Min == -I32Max - 1

PyInt(v) == [k |-> "int", v |-> v]
PyStr == [k |-> "str", v |-> 0]
PyFn(v) == [k |-> "fn", v |-> v]
PyModule == [k |-> "module", v |-> 0]
Absent == [k |-> "absent", v |-> 0]

I32Name == "i32"
StringName == "alloc::string::String"
OpaqueName == "Opaque"
HostI32(v) == [ty |-> I32Name, v |-> v]
HostString == [ty |-> StringName, v |-> 0]
\* A host type whose IntoPyObject implementation returns Err.
HostOpaque == [ty |-> OpaqueName, v |-> 0]
NoHost == [ty |-> "none", v |-> 0]

HostTypes == {I32Name, StringName}

NoErr == "none"
NoArg == "-"

\* The '__main__' module's dictionary of a fresh interpreter.
MainBindings == [n \in Names |-> IF n = "__builtins__" THEN PyModule ELSE Absent]

\* IntoPyObject::into_pyobject: host value to Python object, or an error.
IntoPyObject(h) ==
    CASE h.ty = I32Name -> [ok |-> TRUE, val |-> PyInt(h.v), err |-> NoErr]
      [] h.ty = StringName -> [ok |-> TRUE, val |-> PyStr, err |-> NoErr]
      [] OTHER -> [ok |-> FALSE, val |-> Absent, err |-> "TypeError"]

\* FromPyObject::extract_bound::<T>: Python object to host value of type ty.
ExtractBound(ty, value) ==
    CASE ty = I32Name /\ value.k = "int" /\ value.v >= I32Min /\ value.v <= I32Max ->
            [ok |-> TRUE, val |-> HostI32(value.v), err |-> NoErr]
      [] ty = I32Name /\ value.k = "int" ->
            [ok |-> FALSE, val |-> NoHost, err |-> "OverflowError"]
      [] ty = StringName /\ value.k = "str" ->
            [ok |-> TRUE, val |-> HostString, err |-> NoErr]
      [] OTHER -> [ok |-> FALSE, val |-> NoHost, err |-> "TypeError"]

\* PyDict::get_item / PyDict::set_item on a namespace.
GetItem(ns, name) == ns[name]
\* (mutant: the item is set in a fresh dictionary, which replaces the namespace)
SetItemInFreshDict(ns, name, value) == [MainBindings EXCEPT ![name] = value]
SetItem(ns, name, value) == [ns EXCEPT ![name] = value]


\* ------------------------------------------------------------ code blocks
\* A PythonBlock: 'vars' are the captured host variables that set_vars
\* writes, 'code' the statements of the compiled payload.
Assign(n, k) == [s |-> "assign", n |-> n, src |-> NoArg, k |-> k]
AssignStr(n) == [s |-> "assignstr", n |-> n, src |-> NoArg, k |-> 0]
AddTo(n, src, k) == [s |-> "add", n |-> n, src |-> src, k |-> k]
AssertEq(n, k) == [s |-> "assert", n |-> n, src |-> NoArg, k |-> k]
\* assert n() == k, with n a function of the host registered by add_wrapped.
AssertCallEq(n, k) == [s |-> "call", n |-> n, src |-> NoArg, k |-> k]
Capture(n, h) == [n |-> n, h |-> h]

BlockFoo5 == "foo = 5"
BlockAssert == "assert foo == 5"
BlockFooX2 == "foo = x + 2"
\* 'n' is captured from the host with the value 123.
BlockFooN4 == "foo = 'n + 4"
BlockFooPlus == "foo += 10"
\* Fails at its second statement, after the first one has taken effect.
BlockPartial == "x = 'asdf'; foo = x + 2"
\* Captures 'x' = 1 and then 'n', whose host value cannot be converted.
BlockBadBind == "foo = 'x + 'n"
BlockCall == "assert get_five() == 5"
\* Captures 'x' = 1 and fails in its payload.
BlockCapFail == "assert 'x == 5"
Blocks == {BlockFoo5, BlockAssert, BlockFooX2, BlockFooN4, BlockFooPlus,
           BlockPartial, BlockBadBind, BlockCall, BlockCapFail}

BlockVars(b) ==
    CASE b = BlockFooN4 -> << Capture("n", HostI32(123)) >>
      [] b = BlockBadBind -> << Capture("x", HostI32(1)), Capture("n", HostOpaque) >>
      [] b = BlockCapFail -> << Capture("x", HostI32(1)) >>
      [] OTHER -> << >>

BlockCode(b) ==
    CASE b = BlockFoo5 -> << Assign("foo", 5) >>
      [] b = BlockAssert -> << AssertEq("foo", 5) >>
      [] b = BlockFooX2 -> << AddTo("foo", "x", 2) >>
      [] b = BlockFooN4 -> << AddTo("foo", "n", 4) >>
      [] b = BlockFooPlus -> << AddTo("foo", "foo", 10) >>
      [] b = BlockPartial -> << AssignStr("x"), AddTo("foo", "x", 2) >>
      [] b = BlockBadBind -> << AddTo("foo", "x", 1) >>
      [] b = BlockCall -> << AssertCallEq("get_five", 5) >>
      [] b = BlockCapFail -> << AssertEq("x", 5) >>

\* One statement of a payload executed against namespace ns (run_python_code
\* evaluates the code object with the Context's globals).
ExecStmt(ns, st) ==
    CASE st.s = "assign" -> [ns |-> SetItem(ns, st.n, PyInt(st.k)), err |-> NoErr]
      [] st.s = "assignstr" -> [ns |-> SetItem(ns, st.n, PyStr), err |-> NoErr]
      [] st.s = "add" ->
            IF GetItem(ns, st.src) = Absent THEN [ns |-> ns, err |-> "NameError"]
            ELSE IF GetItem(ns, st.src).k # "int" THEN [ns |-> ns, err |-> "TypeError"]
            ELSE [ns |-> SetItem(ns, st.n, PyInt(GetItem(ns, st.src).v + st.k)),
                  err |-> NoErr]
      [] st.s = "assert" ->
            IF GetItem(ns, st.n) = Absent THEN [ns |-> ns, err |-> "NameError"]
            ELSE IF GetItem(ns, st.n) # PyInt(st.k) THEN [ns |-> ns, err |-> "AssertionError"]
            ELSE [ns |-> ns, err |-> NoErr]
      \* The lookup of the function called; the call itself is a step of its own.
      [] st.s = "call" ->
            IF GetItem(ns, st.n) = Absent THEN [ns |-> ns, err |-> "NameError"]
            ELSE IF GetItem(ns, st.n).k # "fn" THEN [ns |-> ns, err |-> "TypeError"]
            ELSE [ns |-> ns, err |-> NoErr]

\* The closure set_vars generated for a block: set_item for each captured
\* variable in order, panicking at the first one that cannot be converted.
\* Returns the namespace as it is left and whether the closure panicked.
RECURSIVE SetVars(_, _)
SetVars(ns, vars) ==
    IF vars = << >> THEN [ns |-> ns, ok |-> TRUE]
    ELSE LET c == IntoPyObject(Head(vars).h)
         IN IF c.ok THEN SetVars(SetItem(ns, Head(vars).n, c.val), Tail(vars))
            ELSE [ns |-> ns, ok |-> FALSE]

\* ------------------------------------------------------------------- state
VARIABLES
    heap,        \* handle -> namespace (a dictionary: name -> Python value)
    ctxGlobals,  \* sequence of the Contexts created: Context -> its 'globals' handle
    gilCount,    \* thread -> number of with_gil scopes it is inside of
    sysStderr,   \* what sys.stderr is bound to
    stack,       \* thread -> its call frames, innermost last
    opsLeft,     \* top-level calls still to be issued
    lastDrop     \* the with_gil scope left last: left by "exit" or by "unwind",
                 \* and the thread that panicked if by "unwind"

vars == << heap, ctxGlobals, gilCount, sysStderr, stack, opsLeft, lastDrop >>

\* A stream object: the stream sys.stderr is bound to when the program starts
\* (what is written to it leaves the program), or an io.StringIO and its text.
OrigStderr == [kind |-> "sys.__stderr__", text |-> << >>]
CaptureBuffer(text) == [kind |-> "io.StringIO", text |-> text]

\* (mutant: run_with_gil starts the payload without calling set_vars)
FirstPcSkipsBind(op) ==
    CASE op = "with_gil" -> "enter"
      [] op = "run" -> "exec"
      [] OTHER -> "body"
\* The first step of each operation's closure.
FirstPc(op) ==
    CASE op = "with_gil" -> "enter"
      [] op = "run" -> "bind"
      [] OTHER -> "body"

Top(t) == stack[t][Len(stack[t])]
Idle(t) == stack[t] = << >>
Created == 1..Len(ctxGlobals)
Globals(c) == ctxGlobals[c]
Namespace(c) == heap[Globals(c)]

NewFrame(op, ctx, name, ty, val, blk, arg) ==
    [op |-> op, ctx |-> ctx, pc |-> FirstPc(op), name |-> name, ty |-> ty, val |-> val,
     blk |-> blk, arg |-> arg, ip |-> 1, err |-> NoErr, diag |-> << >>,
     ret |-> NoHost, msg |-> << >>, binds |-> 0, bindOk |-> TRUE, ran |-> 0,
     reports |-> 0, reported |-> << >>, cb |-> NoArg, captured |-> FALSE]

Push(t, f) == [stack EXCEPT ![t] = Append(@, f)]
SetTop(t, f) == [stack EXCEPT ![t] = [@ EXCEPT ![Len(@)] = f]]
Pop(t) == [stack EXCEPT ![t] = SubSeq(@, 1, Len(@) - 1)]
\* A call made by a host function that the payload called ends (how: "exit"
\* or "unwind"), and the host function goes on.
Resume(t, how) ==
    [stack EXCEPT ![t] = [i \in 1..(Len(@) - 1) |->
                            IF i = Len(@) - 1 THEN [@[i] EXCEPT !.cb = how] ELSE @[i]]]

Init ==
    /\ heap = [h \in {MainDict} |-> MainBindings]
    /\ ctxGlobals = << >>
    /\ gilCount = [t \in Threads |-> 0]
    /\ sysStderr = OrigStderr
    /\ stack = [t \in Threads |-> << >>]
    /\ opsLeft = MaxOps
    /\ lastDrop = [by |-> 0, pc |-> "none"]

\* ------------------------------------------------------------ the GIL scope
\* (mutant: the closure runs without waiting for the GIL)
GilNotAwaited(t) == TRUE
\* A GIL that the thread holding it cannot acquire again.
GilNotReentrant(t) == \A u \in Threads : gilCount[u] = 0
\* Python::with_gil: the calling thread waits until no other thread holds
\* the GIL; a thread already inside a with_gil scope enters at once.
GilAvailable(t) == \A u \in Threads \ {t} : gilCount[u] = 0
HoldsGil(t) == gilCount[t] > 0

\* A host thread calls one of the operations of Context and reaches its
\* Python::with_gil. The operation and its arguments play no part before the
\* closure starts, so the frame records them from then on (Start).
Waiting == NewFrame("with_gil", 0, NoArg, NoArg, NoHost, NoArg, NoArg)
AtWithGil(t) == stack[t] = << Waiting >>

Call(t) ==
    /\ Idle(t) /\ opsLeft > 0
    /\ stack' = Push(t, Waiting)
    /\ opsLeft' = opsLeft - 1
    /\ UNCHANGED << heap, ctxGlobals, gilCount, sysStderr, lastDrop >>

\* (mutant: the operation touches globals without Python::with_gil)
StartWithoutGil(t, f) ==
    /\ AtWithGil(t)
    /\ stack' = SetTop(t, f)
    /\ UNCHANGED << heap, ctxGlobals, gilCount, sysStderr, opsLeft, lastDrop >>
\* The GIL is acquired and the closure of operation frame f starts.
Start(t, f) ==
    /\ AtWithGil(t)
    /\ GilAvailable(t)
    /\ gilCount' = [gilCount EXCEPT ![t] = @ + 1]
    /\ stack' = SetTop(t, f)
    /\ UNCHANGED << heap, ctxGlobals, sysStderr, opsLeft, lastDrop >>

\* (mutant: the GIL is released by a statement after the closure, which a
\* panic skips)
GuardDroppedOnReturn(pc) == pc = "exit"
\* The GIL guard of with_gil is dropped when the closure returns and when a
\* panic unwinds through it.
GuardDropped(pc) == pc \in {"exit", "unwind"}

DropGuard(t) ==
    /\ ~Idle(t)
    /\ Top(t).pc \in {"exit", "unwind"}
    /\ gilCount' = [gilCount EXCEPT ![t] = IF GuardDropped(Top(t).pc) THEN @ - 1 ELSE @]
    /\ stack' = IF Len(stack[t]) = 1 THEN Pop(t) ELSE Resume(t, Top(t).pc)
    /\ lastDrop' = [by |-> IF Top(t).pc = "unwind" THEN t ELSE 0, pc |-> Top(t).pc]
    /\ UNCHANGED << heap, ctxGlobals, sysStderr, opsLeft >>

\* ------------------------------------------------------- error formatting
\* The points at which py_err_to_string can fail; 0 is no failure.
CaptureFaults == 0..6

\* What err.print writes: the traceback header and the error's description.
Traceback(err) == << "Traceback (most recent call last):", err >>

\* Writing text to a stream.
Write(stream, text) ==
    IF stream.kind = "io.StringIO" THEN [stream EXCEPT !.text = @ \o text] ELSE stream

\* io.StringIO(): a buffer of its own for each call, empty.
NewStringIO == CaptureBuffer(<< >>)

\* A capture that leaves sys.stderr bound to its buffer.
PyErrToStringNoRestore(err, fault, stderr0) ==
    LET stderr == NewStringIO
        printed == Write(stderr, Traceback(err))
    IN CASE fault \in 1..4 -> [ok |-> FALSE, msg |-> << >>, stderr |-> stderr0]
         [] fault \in 5..6 -> [ok |-> FALSE, msg |-> << >>, stderr |-> printed]
         [] OTHER -> [ok |-> TRUE, msg |-> printed.text, stderr |-> printed]
\* A capture that prints into the buffer an earlier capture left in sys.stderr.
PyErrToStringReusingBuffer(err, fault, stderr0) ==
    LET stderr == IF stderr0.kind = "io.StringIO" THEN stderr0 ELSE NewStringIO
        printed == Write(stderr, Traceback(err))
    IN CASE fault \in 1..4 -> [ok |-> FALSE, msg |-> << >>, stderr |-> stderr0]
         [] fault = 5 -> [ok |-> FALSE, msg |-> << >>, stderr |-> printed]
         [] fault = 6 -> [ok |-> FALSE, msg |-> << >>, stderr |-> stderr0]
         [] OTHER -> [ok |-> TRUE, msg |-> printed.text, stderr |-> stderr0]
\* py_err_to_string: print the error with sys.stderr redirected to a fresh
\* io.StringIO, restore sys.stderr, return the buffer's text. fault is the
\* step that fails: 1 import sys, 2 the buffer's creation, 3 reading
\* sys.stderr, 4 the redirection, 5 the restoring, 6 reading the buffer.
PyErrToString(err, fault, stderr0) ==
    LET stderr == NewStringIO
        printed == Write(stderr, Traceback(err))
    IN CASE fault \in 1..4 -> [ok |-> FALSE, msg |-> << >>, stderr |-> stderr0]
         [] fault = 5 -> [ok |-> FALSE, msg |-> << >>, stderr |-> printed]
         [] fault = 6 -> [ok |-> FALSE, msg |-> << >>, stderr |-> stderr0]
         [] OTHER -> [ok |-> TRUE, msg |-> printed.text, stderr |-> stderr0]

\* A panic_string without the fallback: whatever the capture returned.
PanicStringNoFallback(err, fault, stderr0) ==
    LET r == PyErrToString(err, fault, stderr0)
    IN [msg |-> r.msg, stderr |-> r.stderr, captured |-> r.ok]
\* panic_string: the captured text, or err.to_string() when the capture failed.
PanicString(err, fault, stderr0) ==
    LET r == PyErrToString(err, fault, stderr0)
    IN [msg |-> IF r.ok THEN r.msg ELSE << err >>, stderr |-> r.stderr, captured |-> r.ok]

\* ------------------------------------------------------------ Context::new
Wrappers == {"get_five", "broken"}

\* (mutant: the dictionary of __main__ is used as it is, without copy())
TryNewWithoutCopy == [handle |-> MainDict, dict |-> heap[MainDict]]
\* try_new: the new Context's globals are a copy of __main__'s dictionary,
\* held at a handle of its own.
TryNew == [handle |-> Cardinality(DOMAIN heap), dict |-> heap[MainDict]]

StartNew(t) ==
    /\ Len(ctxGlobals) < MaxCtx
    /\ \E arg \in {"ok", "ImportError"} :
         Start(t, NewFrame("new", 0, NoArg, NoArg, NoHost, NoArg, arg))

NewBody(t) ==
    /\ ~Idle(t)
    /\ Top(t).op = "new" /\ Top(t).pc = "body"
    /\ IF Top(t).arg = "ok" /\ Len(ctxGlobals) < MaxCtx
       THEN /\ heap' = (TryNew.handle :> TryNew.dict) @@ heap
            /\ ctxGlobals' = Append(ctxGlobals, TryNew.handle)
            /\ stack' = SetTop(t, [Top(t) EXCEPT !.pc = "exit",
                                                 !.ctx = Len(ctxGlobals) + 1])
            /\ UNCHANGED sysStderr
       ELSE \E fault \in CaptureFaults :
              LET p == PanicString("ImportError", fault, sysStderr)
              IN /\ stack' = SetTop(t, [Top(t) EXCEPT !.pc = "unwind", !.msg = p.msg,
                                                      !.err = "ImportError"])
                 /\ sysStderr' = p.stderr
                 /\ UNCHANGED << heap, ctxGlobals >>
    /\ UNCHANGED << gilCount, opsLeft, lastDrop >>

\* ------------------------------------------------------------ Context::get
GetNames == {"x", "foo"}

\* (mutant: the message does not say which variable)
MissingMsgUnnamed(name) ==
    << "Python context does not contain the variable" >>
MissingMsg(name) ==
    << "Python context does not contain a variable named '", name, "'" >>
ConvertMsg(name, ty, e) ==
    << "Unable to convert '", name, "' to '", ty, "': ", e >>

StartGet(t) ==
    \E c \in Created, name \in GetNames, ty \in HostTypes :
        Start(t, NewFrame("get", c, name, ty, NoHost, NoArg, NoArg))

\* The outcome of the closure of get on namespace ns.
GetOutcome(ns, name, ty) ==
    LET value == GetItem(ns, name)
        e == ExtractBound(ty, value)
    IN IF value = Absent
       THEN [pc |-> "unwind", ret |-> NoHost, msg |-> MissingMsg(name)]
       ELSE IF e.ok
            THEN [pc |-> "exit", ret |-> e.val, msg |-> << >>]
            ELSE [pc |-> "unwind", ret |-> NoHost, msg |-> ConvertMsg(name, ty, e.err)]

\* A get that takes the value out of the namespace (dict.pop).
GetBodyPopping(t) ==
    /\ ~Idle(t)
    /\ Top(t).op = "get" /\ Top(t).pc = "body"
    /\ LET o == GetOutcome(Namespace(Top(t).ctx), Top(t).name, Top(t).ty)
       IN stack' = SetTop(t, [Top(t) EXCEPT !.pc = o.pc, !.ret = o.ret, !.msg = o.msg])
    /\ heap' = [heap EXCEPT ![Globals(Top(t).ctx)] = [@ EXCEPT ![Top(t).name] = Absent]]
    /\ UNCHANGED << ctxGlobals, gilCount, sysStderr, opsLeft, lastDrop >>
GetBody(t) ==
    /\ ~Idle(t)
    /\ Top(t).op = "get" /\ Top(t).pc = "body"
    /\ LET o == GetOutcome(Namespace(Top(t).ctx), Top(t).name, Top(t).ty)
       IN stack' = SetTop(t, [Top(t) EXCEPT !.pc = o.pc, !.ret = o.ret, !.msg = o.msg])
    /\ UNCHANGED << heap, ctxGlobals, gilCount, sysStderr, opsLeft, lastDrop >>

\* ------------------------------------------------------------ Context::set
SetNames == {"x"}
SetVals == {HostI32(13), HostString, HostOpaque}

SetMsg(name, ty, e) ==
    << "Unable to set '", name, "' from a '", ty, "': ", e >>

StartSet(t) ==
    \E c \in Created, name \in SetNames, val \in SetVals :
        Start(t, NewFrame("set", c, name, val.ty, val, NoArg, NoArg))

\* (mutant: an existing binding is kept, as by setdefault)
SetOutcomeKeepsExisting(ns, name, val) ==
    LET c == IntoPyObject(val)
    IN IF c.ok
       THEN [pc |-> "exit",
             ns |-> IF GetItem(ns, name) = Absent THEN SetItem(ns, name, c.val) ELSE ns,
             msg |-> << >>]
       ELSE [pc |-> "unwind", ns |-> ns, msg |-> SetMsg(name, val.ty, c.err)]
\* The outcome of the closure of set on namespace ns.
SetOutcome(ns, name, val) ==
    LET c == IntoPyObject(val)
    IN IF c.ok
       THEN [pc |-> "exit", ns |-> SetItem(ns, name, c.val), msg |-> << >>]
       ELSE [pc |-> "unwind", ns |-> ns, msg |-> SetMsg(name, val.ty, c.err)]

SetBody(t) ==
    /\ ~Idle(t)
    /\ Top(t).op = "set" /\ Top(t).pc = "body"
    /\ LET o == SetOutcome(Namespace(Top(t).ctx), Top(t).name, Top(t).val)
       IN /\ heap' = [heap EXCEPT ![Globals(Top(t).ctx)] = o.ns]
          /\ stack' = SetTop(t, [Top(t) EXCEPT !.pc = o.pc, !.msg = o.msg])
    /\ UNCHANGED << ctxGlobals, gilCount, sysStderr, opsLeft, lastDrop >>

\* ---------------------------------------------------- Context::add_wrapped
StartAddWrapped(t) ==
    \E c \in Created, w \in Wrappers :
        Start(t, NewFrame("add_wrapped", c, NoArg, NoArg, NoHost, NoArg, w))

\* What wrap_pyfunction!(get_five) makes: the function object, which returns
\* 5, and the __name__ it carries.
Wrapped(w) == [name |-> "get_five", obj |-> PyFn(5)]

\* An add_wrapped that binds the object under a name of its own choosing.
AddWrappedOutcomeMisnamed(ns, w) ==
    IF w = "get_five"
    THEN [pc |-> "exit", ns |-> SetItem(ns, "foo", Wrapped(w).obj), msg |-> << >>]
    ELSE [pc |-> "unwind", ns |-> ns,
          msg |-> << "called 'Result::unwrap()' on an 'Err' value: ", "SystemError" >>]
\* wrapper(py).unwrap(), then set_item(obj.__name__, obj). The object is a
\* PyCFunction, whose __name__ exists and is a string, so neither the expect
\* nor the set_item fails.
AddWrappedOutcome(ns, w) ==
    IF w = "get_five"
    THEN [pc |-> "exit", ns |-> SetItem(ns, Wrapped(w).name, Wrapped(w).obj), msg |-> << >>]
    ELSE [pc |-> "unwind", ns |-> ns,
          msg |-> << "called 'Result::unwrap()' on an 'Err' value: ", "SystemError" >>]

AddWrappedBody(t) ==
    /\ ~Idle(t)
    /\ Top(t).op = "add_wrapped" /\ Top(t).pc = "body"
    /\ LET o == AddWrappedOutcome(Namespace(Top(t).ctx), Top(t).arg)
       IN /\ heap' = [heap EXCEPT ![Globals(Top(t).ctx)] = o.ns]
          /\ stack' = SetTop(t, [Top(t) EXCEPT !.pc = o.pc, !.msg = o.msg])
    /\ UNCHANGED << ctxGlobals, gilCount, sysStderr, opsLeft, lastDrop >>

\* ------------------------------------------------------------ Context::run
\* What the block's failure handler does when invoked: the handler of
\* python!{} panics; a handler may also return.
Reports == {"unwinds", "returns"}

StartRun(t) ==
    \E c \in Created, b \in Blocks, r \in Reports :
        Start(t, NewFrame("run", c, NoArg, NoArg, NoHost, b, r))

\* (mutant: a failure of set_vars is swallowed and the payload runs)
AfterBindAlwaysExec(ok) == "exec"
\* Where run_with_gil goes after (block.set_vars)(globals): on to
\* run_python_code, unless set_vars panicked.
AfterBind(ok) == IF ok THEN "exec" ELSE "unwind"

\* The namespace set_vars is handed: the globals of the Context run was
\* called on.
BindTarget(c) == Globals(c)

RunBind(t) ==
    /\ ~Idle(t)
    /\ Top(t).op = "run" /\ Top(t).pc = "bind"
    /\ LET r == SetVars(heap[BindTarget(Top(t).ctx)], BlockVars(Top(t).blk))
       IN /\ heap' = [heap EXCEPT ![BindTarget(Top(t).ctx)] = r.ns]
          /\ stack' = SetTop(t, [Top(t) EXCEPT
                          !.pc = AfterBind(r.ok),
                          !.binds = @ + 1,
                          !.bindOk = r.ok,
                          !.msg = IF r.ok THEN << >>
                                  ELSE << "Unable to convert variable to Python" >>])
    /\ UNCHANGED << ctxGlobals, gilCount, sysStderr, opsLeft, lastDrop >>

\* (mutant: the failure handler is called whatever run_python_code returned)
IsErrAlways(e) == TRUE
\* 'if let Err(err) = run_python_code(..)': whether the result is an error.
IsErr(e) == e # NoErr

\* One statement of the payload; after the failing or the last statement
\* run_python_code returns.
RunExec(t) ==
    /\ ~Idle(t)
    /\ Top(t).op = "run" /\ Top(t).pc = "exec"
    /\ LET f == Top(t)
           code == BlockCode(f.blk)
           r == ExecStmt(Namespace(f.ctx), code[f.ip])
           returned == r.err # NoErr \/ f.ip = Len(code)
           calls == code[f.ip].s = "call" /\ r.err = NoErr
       IN /\ heap' = [heap EXCEPT ![Globals(f.ctx)] = r.ns]
          /\ stack' = SetTop(t,
                IF calls THEN [f EXCEPT !.pc = "callback"]
                ELSE IF ~returned THEN [f EXCEPT !.ip = @ + 1, !.ran = @ + 1]
                ELSE [f EXCEPT !.err = r.err, !.ran = @ + 1,
                               !.pc = IF IsErr(r.err) THEN "fmt" ELSE "exit"])
    /\ UNCHANGED << ctxGlobals, gilCount, sysStderr, opsLeft, lastDrop >>

\* What a host function called by the payload may do before it returns: one
\* call of get, set or run on a Context, on the thread the payload runs on.
NestedCalls ==
    {NewFrame("get", c, "x", I32Name, NoHost, NoArg, NoArg) : c \in Created}
    \cup {NewFrame("set", c, "x", I32Name, HostI32(13), NoArg, NoArg) : c \in Created}
    \cup {NewFrame("run", c, NoArg, NoArg, NoHost, BlockFoo5, "unwinds") : c \in Created}

\* The host function calls get, set or run: their Python::with_gil finds the
\* GIL held by this thread and the closure starts.
CallbackReenter(t) ==
    /\ ~Idle(t)
    /\ Top(t).op = "run" /\ Top(t).pc = "callback" /\ Top(t).cb = NoArg
    /\ GilAvailable(t)
    /\ gilCount' = [gilCount EXCEPT ![t] = @ + 1]
    /\ \E f \in NestedCalls : stack' = Push(t, f)
    /\ UNCHANGED << heap, ctxGlobals, sysStderr, opsLeft, lastDrop >>

\* The host function returns its value to the payload, which compares it; a
\* panic inside the host function reaches the payload as a PanicException.
CallbackReturn(t) ==
    /\ ~Idle(t)
    /\ Top(t).op = "run" /\ Top(t).pc = "callback"
    /\ LET f == Top(t)
           code == BlockCode(f.blk)
           st == code[f.ip]
           e == IF f.cb = "unwind" THEN "PanicException"
                ELSE IF GetItem(Namespace(f.ctx), st.n).v # st.k THEN "AssertionError"
                ELSE NoErr
           returned == e # NoErr \/ f.ip = Len(code)
       IN stack' = SetTop(t,
            IF ~returned THEN [f EXCEPT !.ip = @ + 1, !.ran = @ + 1, !.cb = NoArg,
                                        !.pc = "exec"]
            ELSE [f EXCEPT !.err = e, !.ran = @ + 1, !.cb = NoArg,
                           !.pc = IF IsErr(e) THEN "fmt" ELSE "exit"])
    /\ UNCHANGED << heap, ctxGlobals, gilCount, sysStderr, opsLeft, lastDrop >>

\* panic_string(py, &err), the argument of (block.panic).
RunFmt(t) ==
    /\ ~Idle(t)
    /\ Top(t).op = "run" /\ Top(t).pc = "fmt"
    /\ \E fault \in CaptureFaults :
         LET p == PanicString(Top(t).err, fault, sysStderr)
         IN /\ stack' = SetTop(t, [Top(t) EXCEPT !.pc = "report", !.diag = p.msg,
                                                !.captured = p.captured])
            /\ sysStderr' = p.stderr
    /\ UNCHANGED << heap, ctxGlobals, gilCount, opsLeft, lastDrop >>

\* A run that empties the Context's namespace of what the failed block wrote
\* before it reports the failure.
RunReportRollingBack(t) ==
    /\ ~Idle(t)
    /\ Top(t).op = "run" /\ Top(t).pc = "report"
    /\ stack' = SetTop(t, [Top(t) EXCEPT
                    !.reports = @ + 1,
                    !.reported = Top(t).diag,
                    !.pc = IF Top(t).arg = "unwinds" THEN "unwind" ELSE "exit",
                    !.msg = IF Top(t).arg = "unwinds" THEN Top(t).diag ELSE << >>])
    /\ heap' = [heap EXCEPT ![Globals(Top(t).ctx)] =
                  [n \in Names |->
                     IF \/ \E i \in DOMAIN BlockVars(Top(t).blk) : BlockVars(Top(t).blk)[i].n = n
                        \/ \E k \in DOMAIN BlockCode(Top(t).blk) : BlockCode(Top(t).blk)[k].n = n
                     THEN Absent ELSE @[n]]]
    /\ UNCHANGED << ctxGlobals, gilCount, sysStderr, opsLeft, lastDrop >>
\* (block.panic)(diagnostic).
RunReport(t) ==
    /\ ~Idle(t)
    /\ Top(t).op = "run" /\ Top(t).pc = "report"
    /\ stack' = SetTop(t, [Top(t) EXCEPT
                    !.reports = @ + 1,
                    !.reported = Top(t).diag,
                    !.pc = IF Top(t).arg = "unwinds" THEN "unwind" ELSE "exit",
                    !.msg = IF Top(t).arg = "unwinds" THEN Top(t).diag ELSE << >>])
    /\ UNCHANGED << heap, ctxGlobals, gilCount, sysStderr, opsLeft, lastDrop >>

\* ------------------------------------------------------------ specification
Next ==
    \E t \in Threads :
        \/ Call(t)
        \/ StartNew(t) \/ StartGet(t) \/ StartSet(t) \/ StartAddWrapped(t) \/ StartRun(t)
        \/ DropGuard(t)
        \/ NewBody(t) \/ GetBody(t) \/ SetBody(t) \/ AddWrappedBody(t)
        \/ RunBind(t) \/ RunExec(t) \/ RunFmt(t) \/ RunReport(t)
        \/ CallbackReenter(t) \/ CallbackReturn(t)

Spec == Init /\ [][Next]_vars

\* ------------------------------------------------------------ properties
\* The thread that takes the step.
Acting(t) == stack'[t] # stack[t]

\* The bindings (handle, name) the next step of thread t writes.
StepWrites(t) ==
    IF Idle(t) THEN {}
    ELSE LET f == Top(t)
         IN CASE f.op = "set" /\ f.pc = "body" -> {<< Globals(f.ctx), f.name >>}
              [] f.op = "add_wrapped" /\ f.pc = "body" -> {<< Globals(f.ctx), f.arg >>}
              [] f.op = "run" /\ f.pc = "bind" ->
                    {<< Globals(f.ctx), BlockVars(f.blk)[i].n >> : i \in DOMAIN BlockVars(f.blk)}
              [] f.op = "run" /\ f.pc = "exec"
                    /\ BlockCode(f.blk)[f.ip].s \notin {"assert", "call"} ->
                    {<< Globals(f.ctx), BlockCode(f.blk)[f.ip].n >>}
              [] OTHER -> {}

\* C1 (Persistence): a binding of a Context's namespace changes only in a
\* step of set, add_wrapped or run on that Context that writes that name, so
\* what a run or set wrote stays until a later operation on the Context
\* overwrites it; a get of a name bound to an integer returns that integer,
\* and a run of 'assert foo == 5' succeeds whenever foo is still bound to 5.
C1_Persistence ==
    [][ /\ \A h \in DOMAIN heap, n \in Names :
            heap'[h][n] # heap[h][n] =>
                \E t \in Threads : Acting(t) /\ << h, n >> \in StepWrites(t)
        /\ \A t \in Threads :
            (Acting(t) /\ ~Idle(t) /\ Top(t).op = "get" /\ Top(t).pc = "body"
                /\ Top(t).ty = I32Name /\ Namespace(Top(t).ctx)[Top(t).name].k = "int")
            => /\ stack'[t][Len(stack[t])].pc = "exit"
               /\ stack'[t][Len(stack[t])].ret = HostI32(Namespace(Top(t).ctx)[Top(t).name].v)
        /\ \A t \in Threads :
            (Acting(t) /\ ~Idle(t) /\ Top(t).op = "run" /\ Top(t).pc = "exec"
                /\ Top(t).blk = BlockAssert /\ Namespace(Top(t).ctx)["foo"] = PyInt(5))
            => stack'[t][Len(stack[t])].pc = "exit"
      ]_vars

\* A run of 'assert foo == 5' has succeeded: foo was bound by an earlier run.
C1_Witness ==
    \E t \in Threads :
        /\ ~Idle(t) /\ Top(t).op = "run" /\ Top(t).blk = BlockAssert
        /\ Top(t).pc = "exit" /\ Top(t).err = NoErr

\* The frames of calls to run.
RunFrames == {Top(t) : t \in {u \in Threads : ~Idle(u) /\ Top(u).op = "run"}}

\* C2 (Bind-before-execute): in every run set_vars is invoked exactly once,
\* before the payload's first statement and on the globals of the Context
\* run was called on, so every captured variable is bound there when the
\* payload starts; a finished run of foo = 'n + 4 with n = 123 captured
\* leaves foo = 127 whatever n was before.
C2_BindBeforeExecute ==
    \A f \in RunFrames :
        /\ f.pc = "bind" => f.binds = 0 /\ f.ran = 0
        /\ f.pc # "bind" => f.binds = 1
        /\ (f.pc = "exec" /\ f.ran = 0) =>
              \A i \in DOMAIN BlockVars(f.blk) :
                 Namespace(f.ctx)[BlockVars(f.blk)[i].n]
                     = IntoPyObject(BlockVars(f.blk)[i].h).val
        /\ (f.blk = BlockFooN4 /\ f.pc = "exit") => Namespace(f.ctx)["foo"] = PyInt(127)

\* get("foo") returns 137 after foo = 'n + 4 and foo += 10 ran on the Context.
C2_Witness ==
    \E t \in Threads :
        /\ ~Idle(t) /\ Top(t).op = "get" /\ Top(t).name = "foo" /\ Top(t).pc = "exit"
        /\ Top(t).ret = HostI32(137)
        /\ Namespace(Top(t).ctx)["n"] = PyInt(123)

\* A thread is inside the closure of a with_gil scope.
Active(t) == ~Idle(t) /\ Top(t).pc # "enter"

\* C3 (Isolation): every Context has a dictionary of its own, different from
\* that of every other Context and from __main__'s; a new Context starts
\* with the bindings of __main__, which never change; and a step of get,
\* set, add_wrapped or run on one Context changes no other dictionary, so
\* x bound in A is absent from B until an operation on B binds it.
C3_Isolation ==
    /\ [](/\ \A a \in Created : Globals(a) # MainDict
          /\ \A a, b \in Created : a # b => Globals(a) # Globals(b)
          /\ heap[MainDict] = MainBindings)
    /\ [][\A t \in Threads :
            (Acting(t) /\ Active(t)) =>
               /\ Top(t).op # "new" =>
                     \A h \in DOMAIN heap' \ {Globals(Top(t).ctx)} : heap'[h] = heap[h]
               /\ Top(t).op = "new" =>
                     /\ \A h \in DOMAIN heap : heap'[h] = heap[h]
                     /\ \A c \in DOMAIN ctxGlobals' \ DOMAIN ctxGlobals :
                           heap'[ctxGlobals'[c]] = MainBindings
       ]_vars

\* x is bound in one Context and get("x") on another has failed: name not found.
C3_Witness ==
    \E t \in Threads, a \in Created :
        /\ ~Idle(t) /\ Top(t).op = "get" /\ Top(t).name = "x" /\ Top(t).pc = "unwind"
        /\ Top(t).msg = MissingMsg("x")
        /\ a < Top(t).ctx
        /\ Namespace(a)["x"] # Absent

C5_AccessUnderLock ==
    \A t \in Threads :
        (~Idle(t) /\ Top(t).pc \in {"body", "bind", "exec", "fmt", "report"}) =>
            /\ HoldsGil(t)
            /\ \A u \in Threads \ {t} : ~HoldsGil(u)

\* A get is about to read the namespace while another thread waits for the GIL.
C5_Witness ==
    \E t, u \in Threads :
        /\ t # u /\ AtWithGil(u)
        /\ ~Idle(t) /\ Top(t).op \in {"get", "set"} /\ Top(t).pc = "body"

\* The number of with_gil closures thread t is inside of.
ScopesEntered(t) == Cardinality({i \in DOMAIN stack[t] : stack[t][i].pc # "enter"})

\* C6 (Lock release on every exit path): a thread holds exactly one
\* acquisition of the GIL for each with_gil closure it is inside of, none
\* once its call has ended, by return or by unwinding (a panic of set_vars, of
\* get or set, or of the failure handler); leaving the scope gives back
\* exactly the acquisition made on entry, after which any thread waiting at
\* with_gil can acquire the GIL.
C6_LockReleased ==
    /\ [](\A t \in Threads : gilCount[t] = ScopesEntered(t))
    /\ [][\A t \in Threads :
            (Acting(t) /\ Active(t) /\ Top(t).pc \in {"exit", "unwind"}) =>
               /\ gilCount'[t] = gilCount[t] - 1
               /\ Len(stack[t]) = 1 =>
                     /\ Idle(t)' /\ ~HoldsGil(t)'
                     /\ \A u \in Threads : AtWithGil(u)' => GilAvailable(u)'
       ]_vars

\* The last scope left was left by a panic, and another thread, which
\* waited at with_gil meanwhile, has entered its closure since.
C6_Witness ==
    /\ lastDrop.pc = "unwind"
    /\ \E t \in Threads \ {lastDrop.by} :
          Active(t) /\ HoldsGil(t) /\ Top(t).pc \in {"body", "bind"}

\* C7 (Failure handler only on failure): the failure handler of a block is
\* invoked at most once, only after the payload ended with an error and the
\* diagnostic was built, with that diagnostic; whenever the payload ended
\* with an error it is invoked before the run ends; when the payload
\* succeeds it is not invoked and run returns normally.
C7_ReportOnlyOnFailure ==
    \A f \in RunFrames :
        /\ f.reports \in {0, 1}
        /\ f.reports = 1 <=> (f.err # NoErr /\ f.pc \in {"exit", "unwind"})
        /\ f.reports = 1 =>
              /\ f.diag # << >> /\ f.reported = f.diag
              /\ f.pc = (IF f.arg = "unwinds" THEN "unwind" ELSE "exit")
              /\ f.arg = "unwinds" => f.msg = f.diag
        /\ f.pc = "report" => (f.err # NoErr /\ f.diag # << >>)
        /\ f.pc = "fmt" => f.err # NoErr
        /\ (f.err = NoErr /\ f.ran = Len(BlockCode(f.blk))) => f.pc = "exit"

\* The failure handler of a failed run has been invoked and is unwinding.
C7_Witness ==
    \E f \in RunFrames :
        f.pc = "unwind" /\ f.reports = 1 /\ f.err = "AssertionError"

\* C8 (Bind failure aborts before execution): when set_vars fails, no
\* statement of the payload is executed, no diagnostic is built, the failure
\* handler is not invoked, and the call unwinds with the panic of set_vars.
C8_BindFailureAborts ==
    \A f \in RunFrames :
        ~f.bindOk =>
            /\ f.pc = "unwind"
            /\ f.ran = 0 /\ f.err = NoErr
            /\ f.diag = << >> /\ f.reports = 0
            /\ f.msg = << "Unable to convert variable to Python" >>

\* set_vars has panicked at its second variable, after binding the first.
C8_Witness ==
    \E f \in RunFrames :
        ~f.bindOk /\ f.blk = BlockBadBind /\ Namespace(f.ctx)["x"] = PyInt(1)

\* The frames of calls to get whose closure has ended.
GetEnded == {Top(t) : t \in {u \in Threads : ~Idle(u) /\ Top(u).op = "get"
                                              /\ Top(u).pc \in {"exit", "unwind"}}}
Range(seq) == {seq[i] : i \in DOMAIN seq}
Convertible(ty, value) == ExtractBound(ty, value).ok

\* C9 as stated: get fails exactly when the name is absent or the value
\* cannot be converted, and in both cases the message names the variable
\* and the target type.
C9_Original ==
    \A f \in GetEnded :
        /\ f.pc = "unwind" <=>
              (Namespace(f.ctx)[f.name] = Absent
                  \/ ~Convertible(f.ty, Namespace(f.ctx)[f.name]))
        /\ f.pc = "unwind" => (f.name \in Range(f.msg) /\ f.ty \in Range(f.msg))

\* C9 (get failure reporting), amended: get fails exactly when the name is
\* absent or the value cannot be converted to T; the message names the
\* variable in both cases and the target type when the conversion failed
\* (the message for an absent name does not name the type).
C9_GetFailure ==
    \A f \in GetEnded :
        /\ f.pc = "unwind" <=>
              (Namespace(f.ctx)[f.name] = Absent
                  \/ ~Convertible(f.ty, Namespace(f.ctx)[f.name]))
        /\ f.pc = "unwind" => f.name \in Range(f.msg)
        /\ (f.pc = "unwind" /\ Namespace(f.ctx)[f.name] # Absent) =>
              f.ty \in Range(f.msg)
        /\ (f.pc = "unwind" /\ Namespace(f.ctx)[f.name] = Absent) =>
              f.ty \notin Range(f.msg)

\* A get of a string as i32 has failed, naming variable and type.
C9_Witness ==
    \E f \in GetEnded :
        /\ f.pc = "unwind" /\ f.name = "x" /\ f.ty = I32Name
        /\ Namespace(f.ctx)["x"] = PyStr
        /\ f.msg = ConvertMsg("x", I32Name, "TypeError")

\* C10 (set then get): set(name, v) with a convertible v binds name to v's
\* Python value, replacing any binding of name and changing nothing else in
\* any namespace; a get of a name whose binding is that of a set of v, as
\* v's type, returns v; a finished run of foo = x + 2 with x = 13 leaves
\* foo = 15.
C10_SetThenGet ==
    /\ [][\A t \in Threads :
            (Acting(t) /\ ~Idle(t) /\ Top(t).op = "set" /\ Top(t).pc = "body"
                /\ IntoPyObject(Top(t).val).ok) =>
               /\ heap' = [heap EXCEPT ![Globals(Top(t).ctx)] =
                               [@ EXCEPT ![Top(t).name] = IntoPyObject(Top(t).val).val]]
               /\ stack'[t][Len(stack[t])].pc = "exit"
       ]_vars
    /\ [](\A f \in GetEnded : \A v \in SetVals :
            (IntoPyObject(v).ok /\ f.ty = v.ty
                /\ Namespace(f.ctx)[f.name] = IntoPyObject(v).val) =>
               (f.pc = "exit" /\ f.ret = v))
    /\ [](\A f \in RunFrames :
            (f.blk = BlockFooX2 /\ f.pc = "exit" /\ Namespace(f.ctx)["x"] = PyInt(13)) =>
               Namespace(f.ctx)["foo"] = PyInt(15))

\* get("foo") returns 15 on a Context where x = 13 was set.
C10_Witness ==
    \E f \in GetEnded :
        /\ f.pc = "exit" /\ f.name = "foo" /\ f.ret = HostI32(15)
        /\ Namespace(f.ctx)["x"] = PyInt(13)

\* The threads inside a call made by a host function that a payload called.
Nested(t) == Len(stack[t]) >= 2

\* C11 (Same-thread re-entrancy): a host function called by the payload of a
\* run can always start a call of get, set or run on its own thread (the GIL
\* its thread holds does not block it); inside that call the thread holds one
\* scope per call and no other thread is inside a scope; every step of the
\* nested call can be taken; and when the nested call ends, the outer run
\* still holds the GIL, so no other thread can enter before the run ends.
C11_Reentrancy ==
    \A t \in Threads :
        /\ (~Idle(t) /\ Top(t).pc = "callback" /\ Top(t).cb = NoArg /\ Created # {})
              => ENABLED CallbackReenter(t)
        /\ Nested(t) =>
              /\ gilCount[t] = Len(stack[t])
              /\ \A u \in Threads \ {t} : gilCount[u] = 0 /\ ~Active(u)
              /\ ENABLED (GetBody(t) \/ SetBody(t) \/ RunBind(t) \/ RunExec(t)
                          \/ RunFmt(t) \/ RunReport(t) \/ DropGuard(t))
        /\ (~Idle(t) /\ Top(t).pc = "callback" /\ Top(t).cb # NoArg) =>
              /\ Top(t).cb \in {"exit", "unwind"}
              /\ gilCount[t] = Len(stack[t]) /\ gilCount[t] >= 1
              /\ \A u \in Threads \ {t} : ~GilAvailable(u) /\ ~Active(u)

\* A host function's nested set has returned to the payload that called it,
\* while the other thread waits for the GIL.
C11_Witness ==
    \E t \in Threads :
        /\ ~Idle(t) /\ Top(t).op = "run" /\ Top(t).pc = "callback" /\ Top(t).cb = "exit"
        /\ gilCount[t] = 1
        /\ \E u \in Threads \ {t} : AtWithGil(u)

\* The frames of calls to run whose diagnostic has been built.
Diagnosed == {f \in RunFrames : f.pc = "report" \/ f.reports = 1}

\* C12 (Error capture is per execution): the diagnostic of a failed run is
\* made of this failure's text only: when the capture succeeded it is exactly
\* what err.print wrote for this error into a buffer that started empty, and
\* otherwise this error's plain description; no line of it comes from the
\* buffer of an earlier failure, and the handler is given exactly this text.
C12_CapturePerExecution ==
    \A f \in Diagnosed :
        /\ f.err # NoErr
        /\ f.captured => f.diag = Write(CaptureBuffer(<< >>), Traceback(f.err)).text
        /\ Range(f.diag) \subseteq Range(Traceback(f.err))
        /\ Len(f.diag) <= Len(Traceback(f.err))
        /\ f.reports = 1 => f.reported = f.diag

\* The handler of a failed run was given the captured text of its own error
\* while sys.stderr is the buffer an earlier failure of another kind left.
C12_Witness ==
    \E f \in Diagnosed :
        /\ f.reports = 1 /\ f.captured
        /\ sysStderr.kind = "io.StringIO" /\ sysStderr.text # << >>
        /\ f.err \notin Range(sysStderr.text)

\* The frame on top of thread t's stack after the step.
TopAfter(t) == stack'[t][Len(stack'[t])]

\* C13 (add_wrapped registers a callable under its own name): the step of
\* add_wrapped that returns binds the wrapped object's __name__ to the object
\* in the Context's namespace and changes no other binding of any dictionary;
\* a later payload on the Context that calls that name, while it is still
\* bound to the object, gets into the host function (no NameError, no
\* TypeError), and when the function returns its 5 'assert get_five() == 5'
\* passes.
C13_AddWrapped ==
    [][\A t \in Threads :
         /\ (Acting(t) /\ ~Idle(t) /\ Top(t).op = "add_wrapped" /\ Top(t).pc = "body"
               /\ TopAfter(t).pc = "exit")
            => LET g == Globals(Top(t).ctx)
                   w == Wrapped(Top(t).arg)
               IN heap' = [heap EXCEPT ![g] = [@ EXCEPT ![w.name] = w.obj]]
         /\ (Acting(t) /\ ~Idle(t) /\ Top(t).op = "run" /\ Top(t).blk = BlockCall
               /\ Namespace(Top(t).ctx)["get_five"] = Wrapped("get_five").obj)
            => /\ Top(t).pc = "exec" => TopAfter(t).pc = "callback"
               /\ (Top(t).pc = "callback" /\ Top(t).cb # "unwind"
                     /\ Len(stack'[t]) = Len(stack[t]))
                  => TopAfter(t).pc = "exit" /\ TopAfter(t).err = NoErr
      ]_vars

\* A run of 'assert get_five() == 5' has succeeded on a Context.
C13_Witness ==
    \E f \in RunFrames : f.blk = BlockCall /\ f.pc = "exit" /\ f.err = NoErr /\ f.ran = 1

\* The steps that build a diagnostic: panic_string in run_with_gil, and in
\* new_with_gil when try_new has failed.
Formats(t) ==
    /\ Acting(t) /\ ~Idle(t)
    /\ \/ Top(t).op = "run" /\ Top(t).pc = "fmt"
       \/ Top(t).op = "new" /\ Top(t).pc = "body" /\ TopAfter(t).pc = "unwind"

C15_DiagnosticFallback ==
    \A t \in Threads :
        (~Idle(t) /\ Top(t) \in Diagnosed /\ ~Top(t).captured) =>
            /\ Top(t).diag = << Top(t).err >>
            /\ Top(t).pc = "report" => Top(t).reports = 0 /\ ENABLED RunReport(t)
            /\ Top(t).pc # "report" =>
                  /\ Top(t).reports = 1
                  /\ Top(t).reported = << Top(t).err >>

\* The handler of a failed run has been invoked with the plain description,
\* the restoring of sys.stderr having failed.
C15_Witness ==
    \E f \in Diagnosed :
        /\ ~f.captured /\ f.reports = 1 /\ f.reported = << f.err >>
        /\ sysStderr = CaptureBuffer(Traceback(f.err))

\* A step of thread t inside a call: entering the with_gil scope with an
\* operation, or any step of the operation up to leaving the scope.
Progress(t) ==
    \/ StartNew(t) \/ StartGet(t) \/ StartSet(t) \/ StartAddWrapped(t) \/ StartRun(t)
    \/ NewBody(t) \/ GetBody(t) \/ SetBody(t) \/ AddWrappedBody(t)
    \/ RunBind(t) \/ RunExec(t) \/ RunFmt(t) \/ RunReport(t)
    \/ CallbackReenter(t) \/ CallbackReturn(t) \/ DropGuard(t)

\* The number of calls the threads make in the behaviours checked for
\* completion.
FairOps == 3

FairInit ==
    /\ heap = [h \in {MainDict} |-> MainBindings]
    /\ ctxGlobals = << >>
    /\ gilCount = [t \in Threads |-> 0]
    /\ sysStderr = OrigStderr
    /\ stack = [t \in Threads |-> << >>]
    /\ opsLeft = FairOps
    /\ lastDrop = [by |-> 0, pc |-> "none"]

\* The threads run: a thread whose next step stays possible takes it. Payloads,
\* host functions and handlers end, each being finitely many steps.
FairSpec == FairInit /\ [][Next]_vars /\ \A t \in Threads : WF_vars(Progress(t))

\* A thread is pending when it is inside a call.
Pending == {t \in Threads : ~Idle(t)}

\* C16 (No deadlock and eventual completion): in every reachable state with a
\* pending thread some pending thread can take a step, and a thread waiting
\* for the GIL can enter unless another thread, which can take a step, holds
\* it; every call a thread has begun, which starts by waiting for the GIL,
\* ends, by returning or by unwinding.
C16_NoDeadlock ==
    /\ [](/\ Pending # {} => \E t \in Pending : ENABLED Progress(t)
          /\ \A t \in Threads :
                AtWithGil(t) =>
                   \/ ENABLED Progress(t)
                   \/ \E u \in Threads \ {t} : HoldsGil(u) /\ Active(u) /\ ENABLED Progress(u))
    /\ \A t \in Threads : (~Idle(t)) ~> Idle(t)

\* Every thread is inside its last call: one is about to leave the scope by
\* unwinding, the others wait for the GIL.
C16_Witness ==
    /\ opsLeft = 0
    /\ Pending = Threads
    /\ \E t \in Threads :
          /\ Active(t) /\ Top(t).pc = "unwind"
          /\ \A u \in Threads \ {t} : AtWithGil(u)

\* The frames of calls to run whose payload has failed.
Failed == {f \in RunFrames : f.err # NoErr}

\* The names the statements of f's payload before the failing one assigned.
AssignedBefore(f) ==
    {BlockCode(f.blk)[k].n : k \in {j \in 1..(f.ran - 1) :
                                      BlockCode(f.blk)[j].s \in {"assign", "assignstr"}}}

\* C17 (No rollback on failed execution): from the failure of a payload to
\* the end of its run, every variable the bind step wrote that the payload
\* did not assign later holds the captured value, and every name a statement
\* before the failing one assigned holds what was assigned; building the
\* diagnostic, invoking the handler and leaving the scope, by returning or by
\* unwinding, change no dictionary.
C17_NoRollback ==
    /\ [](\A f \in Failed :
            /\ \A i \in DOMAIN BlockVars(f.blk) :
                  BlockVars(f.blk)[i].n \notin AssignedBefore(f)
                  => Namespace(f.ctx)[BlockVars(f.blk)[i].n]
                        = IntoPyObject(BlockVars(f.blk)[i].h).val
            /\ \A k \in 1..(f.ran - 1) :
                  LET st == BlockCode(f.blk)[k]
                  IN /\ st.s = "assign" => Namespace(f.ctx)[st.n] = PyInt(st.k)
                     /\ st.s = "assignstr" => Namespace(f.ctx)[st.n] = PyStr)
    /\ [][\A t \in Threads :
            (Acting(t) /\ ~Idle(t) /\ Top(t) \in Failed) => heap' = heap
      ]_vars

\* A get on a Context returns the 1 that the bind step of a failed run
\* wrote to 'x', the unwinding of that run having been caught.
C17_Witness ==
    \E f \in GetEnded :
        /\ f.name = "x" /\ f.ret = HostI32(1)
        /\ Namespace(f.ctx)["foo"] = Absent

\* Thread t takes a step of a call to get: it enters the scope of one, runs
\* its closure, or leaves its scope by returning or by unwinding.
GetStep(t) ==
    /\ Acting(t)
    /\ \/ ~Idle(t) /\ Top(t).op = "get"
       \/ Len(stack'[t]) >= Len(stack[t]) /\ Len(stack'[t]) > 0 /\ TopAfter(t).op = "get"

\* C18 (get is read-only): no step of a call to get, whether the get returns
\* a value or fails for an absent name or a conversion, changes a binding of
\* any Context's namespace or of the dictionary of __main__, creates a
\* dictionary, or changes which dictionary a Context owns.
C18_GetReadOnly ==
    [][\A t \in Threads : GetStep(t) => heap' = heap /\ ctxGlobals' = ctxGlobals]_vars

\* A get has failed on a conversion and the name is still bound to the
\* string it could not convert.
C18_Witness ==
    \E f \in GetEnded :
        /\ f.pc = "unwind" /\ f.ty = I32Name
        /\ Namespace(f.ctx)[f.name] = PyStr

====
